---- MODULE Spec2Model ----
(***************************************************************************)
(* A model of two subsystems of go-ipfs:                                   *)
(*   - unixfs/io DagReader  (src/unixfs/io/dagreader.go)                   *)
(*   - ipnsfs Directory     (src/ipnsfs/dir.go)                            *)
(* Go functions with side effects are operators from a state value to a    *)
(* record holding the new state value and the returned values.             *)
(***************************************************************************)
EXTENDS Integers, Sequences, FiniteSets, TLC

VARIABLES
    rnode,     \* DagReader: the file node handed to NewDagReader
    dr,        \* DagReader: the reader object
    rlast,     \* DagReader: the last call made on the reader and what it returned
               \*   (seekAt: a, when the call before a Read was Seek(a, Set);
               \*    from: the offset before a WriteTo or a Seek)
    stream,    \* DagReader: what a read-only loop since the open has delivered
    ov,        \* ipnsfs: the overlay objects (Directory and file), by identity
    dserv,     \* ipnsfs: the nodes the DAGService holds
    dlast,     \* ipnsfs: the last call made on the overlay tree, what it
               \*   returned, the closeChild calls it made and the overlays before it
    held,      \* ipnsfs: the *dag.Node a client got from GetNode (the node
               \*   object of overlay `of`), and the links it had then
    pc         \* ipnsfs: where the calls are that run statement by statement
               \*   next to other goroutines (Directory has no lock)

rvars == <<rnode, dr, rlast, stream>>
dvars == <<ov, dserv, dlast, held, pc>>
vars == <<rnode, dr, rlast, stream, ov, dserv, dlast, held, pc>>

(***************************************************************************)
(* Bounds of the file DAGs the reader is run on.                           *)
(***************************************************************************)
MaxChunks == 2      \* links of the root File node
MaxRead == 2        \* length of the buffer handed to Read
InlineLens == {0, 1}     \* inline bytes of the root File node
ChunkLens == {0, 1, 2}   \* bytes of a Raw chunk

(* whence values of os (used at dagreader.go 207, 260, 264) *)
SEEK_SET == 0
SEEK_CUR == 1
SEEK_END == 2

(***************************************************************************)
(* File DAGs.  A shape gives the layout of a file; BuildNode lays the      *)
(* bytes lo+1, lo+2, ... over it in file order, so that the byte at        *)
(* absolute index i of a file built at lo = 0 is the number i+1.           *)
(***************************************************************************)
RawShape(n) == [t |-> "Raw", n |-> n, kids |-> <<>>]
FileShape(n, kids) == [t |-> "File", n |-> n, kids |-> kids]

RECURSIVE ShapeSize(_)
RECURSIVE KidsSize(_)
ShapeSize(sh) == sh.n + KidsSize(sh.kids)
KidsSize(kids) ==
    IF kids = <<>> THEN 0 ELSE ShapeSize(Head(kids)) + KidsSize(Tail(kids))

Range(lo, n) == [i \in 1..n |-> lo + i]

RECURSIVE BuildNode(_, _)
RECURSIVE BuildKids(_, _)
BuildNode(sh, lo) ==
    [type       |-> sh.t,
     data       |-> Range(lo, sh.n),
     blocksizes |-> [i \in 1..Len(sh.kids) |-> ShapeSize(sh.kids[i])],
     filesize   |-> ShapeSize(sh),
     links      |-> BuildKids(sh.kids, lo + sh.n)]
BuildKids(kids, lo) ==
    IF kids = <<>> THEN <<>>
    ELSE <<BuildNode(Head(kids), lo)>>
             \o BuildKids(Tail(kids), lo + ShapeSize(Head(kids)))

SeqsUpTo(S, n) == UNION {[1..k -> S] : k \in 0..n}

RawShapes == {RawShape(n) : n \in ChunkLens}
\* File chunks: inline bytes followed by a Raw child, and two Raw children
NestedShapes ==
    {FileShape(1, <<RawShape(1)>>), FileShape(0, <<RawShape(1), RawShape(1)>>)}
ChunkShapes == RawShapes \cup NestedShapes
RootShapes ==
    {FileShape(i, kids) : i \in InlineLens, kids \in SeqsUpTo(ChunkShapes, MaxChunks)}
        \cup {RawShape(2)}
FileNodes == {BuildNode(sh, 0) : sh \in RootShapes}

\* the bytes of the file a node stands for, in file order
RECURSIVE FileBytes(_)
RECURSIVE LinksBytes(_)
FileBytes(n) == n.data \o LinksBytes(n.links)
LinksBytes(ls) ==
    IF ls = <<>> THEN <<>> ELSE FileBytes(Head(ls)) \o LinksBytes(Tail(ls))

(***************************************************************************)
(* DagReader                                                               *)
(***************************************************************************)
NoReader == [node |-> <<>>]

\* NewRSNCFromBytes: a bytes.Reader over b, read index 0
NewRSNCFromBytes(b) == [rs |-> "bytes", s |-> b, i |-> 0, dr |-> NoReader]
\* a child DagReader used as the current buffer
ReaderBuf(r) == [rs |-> "dag", s |-> <<>>, i |-> 0, dr |-> r]

newDataFileReader(n) ==
    [node |-> n, buf |-> NewRSNCFromBytes(n.data), linkPosition |-> 0, offset |-> 0,
     cancelled |-> FALSE]

RECURSIVE NewDagReader(_)
NewDagReader(n) ==
    CASE n.type = "Directory" -> [dr |-> NoReader, err |-> "ErrIsDir"]
      [] n.type \in {"Raw", "File"} -> [dr |-> newDataFileReader(n), err |-> "nil"]
      [] n.type = "Metadata" ->
            IF Len(n.links) = 0
            THEN [dr |-> NoReader, err |-> "ErrBadMetadata"]
            ELSE NewDagReader(n.links[1])
      [] OTHER -> [dr |-> NoReader, err |-> "ErrUnrecognizedType"]

\* a reader that steps over a link: linkPosition advanced by two
precalcNextBuf_skip(r) ==
    IF r.linkPosition >= Len(r.node.links)
    THEN [dr |-> r, err |-> "EOF"]
    ELSE LET nxt == r.node.links[r.linkPosition + 1]
             r1 == [r EXCEPT !.linkPosition = @ + 2]
         IN CASE nxt.type = "File" ->
                    [dr |-> [r1 EXCEPT !.buf = ReaderBuf(newDataFileReader(nxt))],
                     err |-> "nil"]
              [] nxt.type = "Raw" ->
                    [dr |-> [r1 EXCEPT !.buf = NewRSNCFromBytes(nxt.data)],
                     err |-> "nil"]
              [] OTHER -> [dr |-> r1, err |-> "ErrUnrecognizedType"]

precalcNextBuf(r) ==
    IF r.linkPosition >= Len(r.node.links)
    THEN [dr |-> r, err |-> "EOF"]
    ELSE LET nxt == r.node.links[r.linkPosition + 1]
             r1 == [r EXCEPT !.linkPosition = @ + 1]
         IN CASE nxt.type = "Directory" ->
                    [dr |-> r1, err |-> "ErrInvalidDirLocation"]
              [] nxt.type = "File" ->
                    [dr |-> [r1 EXCEPT !.buf = ReaderBuf(newDataFileReader(nxt))],
                     err |-> "nil"]
              [] nxt.type = "Raw" ->
                    [dr |-> [r1 EXCEPT !.buf = NewRSNCFromBytes(nxt.data)],
                     err |-> "nil"]
              [] nxt.type = "Metadata" ->
                    [dr |-> r1, err |-> "ErrMetadataInFile"]
              [] OTHER -> [dr |-> r1, err |-> "ErrUnrecognizedType"]

Size(r) == r.node.filesize

Min(a, b) == IF a < b THEN a ELSE b

RECURSIVE ReadLoop(_, _, _)
RECURSIVE BufRead(_, _)
\* dr.buf.Read(b[total:]) with n = len(b[total:])
BufRead(buf, n) ==
    IF buf.rs = "bytes"
    THEN IF buf.i >= Len(buf.s)
         THEN [buf |-> buf, out |-> <<>>, err |-> "EOF"]
         ELSE LET k == Min(n, Len(buf.s) - buf.i)
              IN [buf |-> [buf EXCEPT !.i = @ + k],
                  out |-> SubSeq(buf.s, buf.i + 1, buf.i + k),
                  err |-> "nil"]
    ELSE LET x == ReadLoop(buf.dr, n, <<>>)
         IN [buf |-> ReaderBuf(x.dr), out |-> x.out, err |-> x.err]

\* the for loop of Read; acc is b[:total]
ReadLoop(r, want, acc) ==
    LET x == BufRead(r.buf, want - Len(acc))
        r1 == [r EXCEPT !.buf = x.buf, !.offset = @ + Len(x.out)]
        acc1 == acc \o x.out
    IN IF x.err \notin {"nil", "EOF"}
       THEN [dr |-> r1, out |-> acc1, err |-> x.err]
       ELSE IF Len(acc1) = want
       THEN [dr |-> r1, out |-> acc1, err |-> "nil"]
       ELSE LET p == precalcNextBuf(r1)
            IN IF p.err # "nil"
               THEN [dr |-> p.dr, out |-> acc1, err |-> p.err]
               ELSE ReadLoop(p.dr, want, acc1)

Read(r, n) == ReadLoop(r, n, <<>>)

RECURSIVE WriteToLoop(_, _)
RECURSIVE BufWriteTo(_)
\* dr.buf.WriteTo(w)
BufWriteTo(buf) ==
    IF buf.rs = "bytes"
    THEN [buf |-> [buf EXCEPT !.i = IF @ > Len(buf.s) THEN @ ELSE Len(buf.s)],
          out |-> SubSeq(buf.s, buf.i + 1, Len(buf.s)),
          err |-> "nil"]
    ELSE LET x == WriteToLoop(buf.dr, <<>>)
         IN [buf |-> ReaderBuf(x.dr), out |-> x.out, err |-> x.err]

\* the for loop of WriteTo; acc is what the sink has received
WriteToLoop(r, acc) ==
    LET x == BufWriteTo(r.buf)
        r1 == [r EXCEPT !.buf = x.buf, !.offset = @ + Len(x.out)]
        acc1 == acc \o x.out
    IN IF x.err \notin {"nil", "EOF"}
       THEN [dr |-> r1, out |-> acc1, err |-> x.err]
       ELSE LET p == precalcNextBuf(r1)
            IN IF p.err # "nil"
               THEN [dr |-> p.dr, out |-> acc1,
                     err |-> IF p.err = "EOF" THEN "nil" ELSE p.err]
               ELSE WriteToLoop(p.dr, acc1)

WriteTo(r) == WriteToLoop(r, <<>>)

\* a Close that also rewinds the reader to its first chunk
Close_rewind(r) == [dr |-> [r EXCEPT !.cancelled = TRUE, !.linkPosition = 0], err |-> "nil"]

\* dr.cancel() ends the prefetch scope (calling it again does nothing more)
Close(r) == [dr |-> [r EXCEPT !.cancelled = TRUE], err |-> "nil"]

\* a walk that forgets to subtract the sizes of the chunks it passes
RECURSIVE FindLink_nosub(_, _, _, _)
FindLink_nosub(bs, i, left, lp) ==
    IF i > Len(bs) THEN [linkPosition |-> lp, left |-> left]
    ELSE IF bs[i] > left THEN [linkPosition |-> i - 1, left |-> left]
    ELSE FindLink_nosub(bs, i + 1, left, lp)

\* lines 232-239: the walk over pb.Blocksizes from index i (1-based here);
\* lp is dr.linkPosition, kept when no chunk holds the offset
RECURSIVE FindLink(_, _, _, _)
FindLink(bs, i, left, lp) ==
    IF i > Len(bs) THEN [linkPosition |-> lp, left |-> left]
    ELSE IF bs[i] > left THEN [linkPosition |-> i - 1, left |-> left]
    ELSE FindLink(bs, i + 1, left - bs[i], lp)

\* a SEEK_END that counts forward from the end
noffset_forward(r, offset, whence) ==
    IF whence = SEEK_CUR THEN r.offset + offset ELSE Size(r) + offset

\* lines 260-266: noffset, the absolute target of a relative Seek
noffset(r, offset, whence) ==
    IF whence = SEEK_CUR THEN r.offset + offset ELSE Size(r) - offset

RECURSIVE Seek(_, _, _)
RECURSIVE BufSeek(_, _)
\* dr.buf.Seek(left, os.SEEK_SET)
BufSeek(buf, off) ==
    IF buf.rs = "bytes"
    THEN IF off < 0
         THEN [buf |-> buf, n |-> 0, err |-> "ErrNegativePosition"]
         ELSE [buf |-> [buf EXCEPT !.i = off], n |-> off, err |-> "nil"]
    ELSE LET x == Seek(buf.dr, off, SEEK_SET)
         IN [buf |-> ReaderBuf(x.dr), n |-> x.n, err |-> x.err]

Seek(r, offset, whence) ==
    CASE whence = SEEK_SET ->
            IF offset < 0
            THEN [dr |-> r, n |-> -1, err |-> "ErrInvalidOffset"]
            ELSE IF Len(r.node.data) >= offset
            THEN [dr |-> [r EXCEPT
                            !.buf = NewRSNCFromBytes(
                                SubSeq(r.node.data, offset + 1, Len(r.node.data))),
                            !.linkPosition = 0,
                            !.offset = offset],
                  n |-> offset, err |-> "nil"]
            ELSE LET f == FindLink(r.node.blocksizes, 1,
                                   offset - Len(r.node.data), r.linkPosition)
                     p == precalcNextBuf([r EXCEPT !.linkPosition = f.linkPosition])
                 IN IF p.err # "nil"
                    THEN [dr |-> p.dr, n |-> 0, err |-> p.err]
                    ELSE LET sk == BufSeek(p.dr.buf, f.left)
                             r2 == [p.dr EXCEPT !.buf = sk.buf]
                         IN IF sk.err # "nil"
                            THEN [dr |-> r2, n |-> -1, err |-> sk.err]
                            ELSE IF f.left - sk.n # 0
                            THEN [dr |-> r2, n |-> -1, err |-> "ErrSeekFailed"]
                            ELSE [dr |-> [r2 EXCEPT !.offset = offset],
                                  n |-> offset, err |-> "nil"]
      [] whence = SEEK_CUR -> Seek(r, noffset(r, offset, SEEK_CUR), SEEK_SET)
      [] whence = SEEK_END -> Seek(r, noffset(r, offset, SEEK_END), SEEK_SET)
      [] OTHER -> [dr |-> r, n |-> 0, err |-> "ErrInvalidWhence"]

(***************************************************************************)
(* The reader as a state machine: one reader over one file, driven by any  *)
(* sequence of Read, WriteTo and Seek calls.                               *)
(***************************************************************************)
NoCall == [op |-> "open", arg |-> 0, whence |-> 0, out |-> <<>>, n |-> 0,
           err |-> "nil", seekAt |-> -1, from |-> 0]

\* the target of the preceding call when that was Seek(a, Set), else -1
SeekSetBefore == IF rlast.op = "Seek" /\ rlast.whence = SEEK_SET THEN rlast.arg ELSE -1

NoTree == <<>>

InitReader ==
    /\ ov = NoTree /\ dserv = {} /\ dlast = NoTree /\ held = NoTree /\ pc = NoTree
    /\ rnode \in FileNodes
    /\ dr = NewDagReader(rnode).dr
    /\ rlast = NoCall
    /\ stream = [loop |-> TRUE, got |-> <<>>, eof |-> FALSE]

ReadCall(n) ==
    LET x == Read(dr, n)
    IN /\ dr' = x.dr
       /\ rlast' = [op |-> "Read", arg |-> n, whence |-> 0, out |-> x.out,
                    n |-> Len(x.out), err |-> x.err, seekAt |-> SeekSetBefore,
                    from |-> 0]
       /\ stream' = IF stream.loop /\ n > 0 /\ ~stream.eof
                    THEN [loop |-> TRUE, got |-> stream.got \o x.out,
                          eof |-> x.err = "EOF"]
                    ELSE [loop |-> FALSE, got |-> <<>>, eof |-> FALSE]
       /\ UNCHANGED <<rnode, dvars>>

DoRead == \E n \in 0..MaxRead : ReadCall(n)

DoWriteTo ==
    LET x == WriteTo(dr)
    IN /\ dr' = x.dr
       /\ rlast' = [op |-> "WriteTo", arg |-> 0, whence |-> 0, out |-> x.out,
                    n |-> Len(x.out), err |-> x.err, seekAt |-> -1,
                    from |-> dr.offset]
       /\ stream' = [loop |-> FALSE, got |-> <<>>, eof |-> FALSE]
       /\ UNCHANGED <<rnode, dvars>>

SeekCall(off, whence) ==
    LET x == Seek(dr, off, whence)
    IN /\ dr' = x.dr
       /\ rlast' = [op |-> "Seek", arg |-> off, whence |-> whence,
                    out |-> <<>>, n |-> x.n, err |-> x.err, seekAt |-> -1,
                    from |-> dr.offset]
       /\ stream' = [loop |-> FALSE, got |-> <<>>, eof |-> FALSE]
       /\ UNCHANGED <<rnode, dvars>>

\* absolute seeks to every offset of the file, one before and one past it;
\* relative seeks by one byte either way; an unknown whence
DoSeek ==
    \/ \E off \in -1..(Size(dr) + 1) : SeekCall(off, SEEK_SET)
    \/ \E off \in -1..1 : SeekCall(off, SEEK_CUR)
    \/ \E off \in -1..1 : SeekCall(off, SEEK_END)
    \/ SeekCall(0, 3)

NextReader == DoRead \/ DoWriteTo \/ DoSeek

SpecReader == InitReader /\ [][NextReader]_vars

MaxCloses == 2      \* Close calls made on one reader

\* Close, called again and again; n counts the calls
DoClose ==
    /\ rlast.op = "Close" => rlast.n < MaxCloses
    /\ \E x \in {Close(dr)} :
          /\ dr' = x.dr
          /\ rlast' = [op |-> "Close", arg |-> 0, whence |-> 0, out |-> <<>>,
                       n |-> IF rlast.op = "Close" THEN rlast.n + 1 ELSE 1,
                       err |-> x.err, seekAt |-> -1, from |-> dr.offset]
    /\ stream' = [loop |-> FALSE, got |-> <<>>, eof |-> FALSE]
    /\ UNCHANGED <<rnode, dvars>>

\* a client that uses the reader in any way and then closes it, more than once
NextClose ==
    \/ ~dr.cancelled /\ NextReader
    \/ DoClose

SpecClose == InitReader /\ [][NextClose]_vars

\* chunks that have no place in a file: a Directory (entered in Blocksizes
\* with one byte), a Metadata node, and a node of a type the switch of
\* precalcNextBuf does not know
BadShapes ==
    {[t |-> "Directory", n |-> 1, kids |-> <<>>],
     [t |-> "Metadata", n |-> 0, kids |-> <<>>],
     [t |-> "Unknown", n |-> 0, kids |-> <<>>]}

IsBad(n) == n.type \notin {"Raw", "File"}

\* malformed files: File nodes with at least one such chunk among the links
BadFileNodes ==
    {n \in {BuildNode(FileShape(i, kids), 0) :
               i \in InlineLens, kids \in SeqsUpTo(ChunkShapes \cup BadShapes, MaxChunks)} :
        \E k \in 1..Len(n.links) : IsBad(n.links[k])}

InitBad ==
    /\ ov = NoTree /\ dserv = {} /\ dlast = NoTree /\ held = NoTree /\ pc = NoTree
    /\ rnode \in BadFileNodes
    /\ dr = NewDagReader(rnode).dr
    /\ rlast = NoCall
    /\ stream = [loop |-> TRUE, got |-> <<>>, eof |-> FALSE]

\* one reader over one malformed file, driven by any Read, WriteTo and Seek calls
SpecBad == InitBad /\ [][NextReader]_vars

\* a client all of whose calls succeed: Read, WriteTo and Seek calls that
\* return no error, or the end-of-stream
NextOk == NextReader /\ rlast'.err \in {"nil", "EOF"}

SpecOk == InitReader /\ [][NextOk]_vars

\* a client that opens a file and only reads it, with non-empty buffers,
\* until Read reports end-of-stream
ReadStep == ~stream.eof /\ \E n \in 1..MaxRead : ReadCall(n)

SpecReadLoop == InitReader /\ [][ReadStep]_vars

(***************************************************************************)
(* Properties of the reader                                                *)
(***************************************************************************)
Clamp(x, lo, hi) == IF x < lo THEN lo ELSE IF x > hi THEN hi ELSE x

\* C2: on a well-formed file, for offsets 0 <= a <= b <= filesize, Seek(a, Set)
\* followed by a Read of b-a bytes returns the bytes at [a, b) of the file,
\* whatever calls came before the Seek.
C2_SeekThenRead ==
    (rlast.op = "Read" /\ rlast.seekAt >= 0
        /\ rlast.seekAt + rlast.arg <= rnode.filesize)
    => rlast.out = SubSeq(FileBytes(rnode), rlast.seekAt + 1,
                          rlast.seekAt + rlast.arg)

\* a Read of two bytes right after a Seek into the chunks, which crossed from
\* one chunk into the next, on a reader that now stands in a File chunk
C2_Witness ==
    /\ rlast.op = "Read" /\ rlast.arg = 2 /\ rlast.n = 2
    /\ rlast.seekAt > Len(rnode.data)
    /\ rlast.seekAt + 2 <= rnode.filesize
    /\ dr.linkPosition = 2
    /\ dr.buf.rs = "dag"
    /\ rnode.blocksizes[1] > rlast.seekAt - Len(rnode.data)

C3_Safety ==
    /\ stream.got = SubSeq(FileBytes(rnode), 1, Len(stream.got))
    /\ stream.eof => stream.got = FileBytes(rnode)
    /\ Len(stream.got) <= rnode.filesize
    /\ rlast.op = "Read" =>
          /\ rlast.n < rlast.arg => rlast.err = "EOF"
          /\ rlast.err \in {"nil", "EOF"}
          /\ rlast.err = "EOF" =>
                /\ dr.linkPosition = Len(rnode.links)
                /\ dr.offset = rnode.filesize

\* what is left for the loop to do: the bytes not yet delivered, and the
\* end-of-stream not yet reported
C3_Measure ==
    (rnode.filesize - Len(stream.got)) + (IF stream.eof THEN 0 ELSE 1)

\* C3: repeated Reads with non-empty buffers on a freshly opened reader over a
\* well-formed file deliver, in file order, exactly filesize bytes; a Read
\* returns a short count (and end-of-stream) only when no chunk remains; and
\* the loop terminates: every Read of it delivers a byte or reports the
\* end-of-stream, so the measure above, which is never negative, decreases
\* with every step.
C3_ReadToEnd ==
    [](C3_Safety /\ C3_Measure >= 0) /\ [][C3_Measure' < C3_Measure]_vars

\* the loop has ended on a file with inline bytes and two chunks, the second a
\* File chunk, after a Read that came back short
C3_Witness ==
    /\ stream.eof /\ Len(stream.got) = rnode.filesize
    /\ rnode.filesize >= 4 /\ Len(rnode.data) = 1 /\ Len(rnode.links) = 2
    /\ rnode.links[2].type = "File"
    /\ rlast.n = 1 /\ rlast.arg = 2

\* C4: in every state 0 <= offset <= filesize; Seek(x, Set) with x >= 0 leaves
\* the offset at clamp(x, 0, filesize); Seek(x, Set) with x < 0 fails.
C4_OffsetInRange ==
    /\ 0 <= dr.offset /\ dr.offset <= rnode.filesize
    /\ (rlast.op = "Seek" /\ rlast.whence = SEEK_SET) =>
          IF rlast.arg < 0
          THEN rlast.err # "nil"
          ELSE rlast.err = "nil"
                 /\ dr.offset = Clamp(rlast.arg, 0, rnode.filesize)

(***************************************************************************)
(* ipnsfs Directory: DAG nodes and the DAGService                          *)
(***************************************************************************)
Names == {"a", "b"}       \* entry names the calls are made with
MaxOverlays == 4          \* overlay objects alive at once (the root included)
MaxCalls == 3             \* calls made on the overlay tree in one run

O_RDONLY == 0
O_RDWR == 2
O_CREATE == 64
Modes == {O_RDONLY, O_RDWR + O_CREATE}

\* a content-addressed link target: the hash stands for the content it was
\* computed from, and two nodes have one hash exactly when they are equal
Multihash(nd) == [digest |-> nd]

DirNode(links) == [type |-> "Directory", data |-> 0, links |-> links]
FolderPBData == DirNode(<<>>)                    \* &dag.Node{Data: ft.FolderPBData()}
FileNode(data) == [type |-> "File", data |-> data, links |-> <<>>]
FilePBData == FileNode(0)                        \* ft.FilePBData(nil, 0)
RawNode == [type |-> "Raw", data |-> 1, links |-> <<>>]
MetadataNode == [type |-> "Metadata", data |-> 1, links |-> <<>>]
MakeLink(name, nd) == [name |-> name, hash |-> Multihash(nd)]

HasLink(nd, name) == \E i \in 1..Len(nd.links) : nd.links[i].name = name
FirstLinkIndex(nd, name) ==
    CHOOSE i \in 1..Len(nd.links) :
        /\ nd.links[i].name = name
        /\ \A j \in 1..(i - 1) : nd.links[j].name # name
NotNamed(name, l) == l.name # name

\* Node.RemoveNodeLink: drops the link of that name, dag.ErrNotFound without one
RemoveNodeLink(nd, name) ==
    IF ~HasLink(nd, name) THEN [nd |-> nd, err |-> "ErrNotFound"]
    ELSE LET i == FirstLinkIndex(nd, name)
         IN [nd |-> [nd EXCEPT !.links = SubSeq(@, 1, i - 1) \o SubSeq(@, i + 1, Len(@))],
             err |-> "nil"]

\* Node.AddNodeLinkClean: a link by hash only, replacing a link of that name
AddNodeLinkClean(nd, name, that) ==
    [nd EXCEPT !.links = SelectSeq(@, LAMBDA l : NotNamed(name, l))
                            \o <<MakeLink(name, that)>>]

\* Link.GetNode(serv): the node of that hash when the DAGService holds it
GetNode(serv, lnk) ==
    IF lnk.hash.digest \in serv
    THEN [nd |-> lnk.hash.digest, err |-> "nil"]
    ELSE [nd |-> FolderPBData, err |-> "ErrDagGet"]

\* DAGService.Add: persists this one node
DagAdd(serv, nd) == serv \cup {nd}

\* every node of the DAG under nd
RECURSIVE Closure(_)
Closure(nd) ==
    {nd} \cup UNION {Closure(nd.links[i].hash.digest) : i \in 1..Len(nd.links)}

(***************************************************************************)
(* Overlay objects.  A state S of the tree is [ov, dserv, closes]: the     *)
(* overlay objects by identity (the root is 1; parent 0 is the root's      *)
(* sink), the DAGService, and the closeChild calls made so far in the      *)
(* running call.  Caches map names to identities.                          *)
(***************************************************************************)
Root == 1
NoOverlay == 0
NoCache == <<>>      \* an empty map[string]...

NewDirectory(name, nd, parent) ==
    [kind |-> "dir", name |-> name, node |-> nd, parent |-> parent,
     childDirs |-> NoCache, files |-> NoCache]
\* NewFile (ipnsfs/file.go): a file overlay owning nd
NewFile(name, nd, parent) ==
    [kind |-> "file", name |-> name, node |-> nd, parent |-> parent,
     childDirs |-> NoCache, files |-> NoCache]

MapPut(m, k, v) == [x \in DOMAIN m \cup {k} |-> IF x = k THEN v ELSE m[x]]
MapDelete(m, k) == [x \in DOMAIN m \ {k} |-> m[x]]

NewId(S) == CHOOSE i \in 1..(Cardinality(DOMAIN S.ov) + 1) :
               /\ i \notin DOMAIN S.ov
               /\ \A j \in 1..(i - 1) : j \in DOMAIN S.ov

Alloc(S, o) == [S EXCEPT !.ov = MapPut(@, NewId(S), o)]
Ret(S, ret, err) == [S |-> S, ret |-> ret, err |-> err]

childFile(S, d, name) ==
    IF name \in DOMAIN S.ov[d].files
    THEN Ret(S, S.ov[d].files[name], "nil")
    ELSE IF ~HasLink(S.ov[d].node, name)
    THEN Ret(S, NoOverlay, "ErrNoSuch")
    ELSE LET lnk == S.ov[d].node.links[FirstLinkIndex(S.ov[d].node, name)]
             g == GetNode(S.dserv, lnk)
             id == NewId(S)
         IN IF g.err # "nil" THEN Ret(S, NoOverlay, g.err)
            ELSE CASE g.nd.type = "Directory" -> Ret(S, NoOverlay, "ErrIsDirectory")
                   [] g.nd.type = "File" ->
                        Ret([Alloc(S, NewFile(name, g.nd, d))
                                EXCEPT !.ov[d].files = MapPut(@, name, id)],
                            id, "nil")
                   [] OTHER -> Ret(S, NoOverlay, "PANIC")

childDir(S, d, name) ==
    IF name \in DOMAIN S.ov[d].childDirs
    THEN Ret(S, S.ov[d].childDirs[name], "nil")
    ELSE IF ~HasLink(S.ov[d].node, name)
    THEN Ret(S, NoOverlay, "ErrNoSuch")
    ELSE LET lnk == S.ov[d].node.links[FirstLinkIndex(S.ov[d].node, name)]
             g == GetNode(S.dserv, lnk)
             id == NewId(S)
         IN IF g.err # "nil" THEN Ret(S, NoOverlay, g.err)
            ELSE CASE g.nd.type = "Directory" ->
                        Ret([Alloc(S, NewDirectory(name, g.nd, d))
                                EXCEPT !.ov[d].childDirs = MapPut(@, name, id)],
                            id, "nil")
                   [] g.nd.type = "File" -> Ret(S, NoOverlay, "ErrNotADirectory")
                   [] OTHER -> Ret(S, NoOverlay, "PANIC")

\* the value of a one-element set: The({e : x \in {v}}) is e with the local
\* variable x holding v, which is computed once
The(s) == CHOOSE x \in s : TRUE

\* return err of a call made for its error only
ErrOf(c) == Ret(c.S, NoOverlay, c.err)

Child(S, d, name) ==
    The({
        IF r1.err \in {"nil", "PANIC"} THEN r1
        ELSE The({
            IF r2.err \in {"nil", "PANIC"} THEN r2
            ELSE Ret(r2.S, NoOverlay, "ErrNoSuch")
            : r2 \in {childFile(r1.S, d, name)} })
        : r1 \in {childDir(S, d, name)} })

List(S, d) == [i \in 1..Len(S.ov[d].node.links) |-> S.ov[d].node.links[i].name]

GetNodeOf(S, c) == S.ov[c].node     \* Directory.GetNode, file.GetNode

\* d.parent.closeChild(d.name); the root's parent is a sink that succeeds
RECURSIVE closeChild(_, _, _)
\* a cascade that passes the parent by and goes on at the grandparent
parentCloseChild_skip(S, d) ==
    LET p == S.ov[d].parent
    IN IF p = NoOverlay \/ S.ov[p].parent = NoOverlay
       THEN [S |-> [S EXCEPT !.closes = Append(@, [dir |-> NoOverlay, name |-> S.ov[d].name])],
             err |-> "nil"]
       ELSE closeChild(S, S.ov[p].parent, S.ov[p].name)

parentCloseChild(S, d) ==
    IF S.ov[d].parent = NoOverlay
    THEN [S |-> [S EXCEPT !.closes = Append(@, [dir |-> NoOverlay, name |-> S.ov[d].name])],
          err |-> "nil"]
    ELSE closeChild(S, S.ov[d].parent, S.ov[d].name)

\* a closeChild that adds the child's link without removing the old one
closeChildLevel_dup(S0, d, name) ==
    The({
        IF c.err # "nil" THEN [S |-> c.S, err |-> c.err]
        ELSE LET nd == GetNodeOf(c.S, c.ret)
                 S1 == [c.S EXCEPT !.dserv = DagAdd(@, nd)]
             IN [S |-> [S1 EXCEPT !.ov[d].node.links = Append(@, MakeLink(name, nd))],
                 err |-> "nil"]
        : c \in {Child([S0 EXCEPT !.closes = Append(@, [dir |-> d, name |-> name])],
                       d, name)} })

\* lines 72-95 of closeChild: d's own part, before the call of the parent
closeChildLevel(S0, d, name) ==
    The({
        IF c.err # "nil" THEN [S |-> c.S, err |-> c.err]
        ELSE LET nd == GetNodeOf(c.S, c.ret)
                 S1 == [c.S EXCEPT !.dserv = DagAdd(@, nd)]
                 rm == RemoveNodeLink(c.S.ov[d].node, name)
             IN [S |-> [S1 EXCEPT !.ov[d].node = AddNodeLinkClean(rm.nd, name, nd)],
                 err |-> "nil"]
        : c \in {Child([S0 EXCEPT !.closes = Append(@, [dir |-> d, name |-> name])],
                       d, name)} })

closeChild(S0, d, name) ==
    The({
        IF l.err # "nil" THEN l ELSE parentCloseChild(l.S, d)
        : l \in {closeChildLevel(S0, d, name)} })

\* mode|os.O_CREATE on the bits of two naturals
RECURSIVE BitOr(_, _)
BitOr(a, b) ==
    IF a = 0 THEN b
    ELSE IF b = 0 THEN a
    ELSE (IF a % 2 = 1 \/ b % 2 = 1 THEN 1 ELSE 0) + 2 * BitOr(a \div 2, b \div 2)

\* an Open that also links the new file and closes upward
OpenCreate_linked(S, d, name) ==
    LET id == NewId(S)
        S1 == [Alloc(S, NewFile(name, FilePBData, d))
                  EXCEPT !.ov[d].files = MapPut(@, name, id),
                         !.ov[d].node = AddNodeLinkClean(@, name, FilePBData)]
    IN Ret(parentCloseChild(S1, d).S, id, "nil")

\* lines 46-53 of Open: a new empty file, put in d.files only
OpenCreate(S, d, name) ==
    LET id == NewId(S)
    IN Ret([Alloc(S, NewFile(name, FilePBData, d))
               EXCEPT !.ov[d].files = MapPut(@, name, id)],
           id, "nil")

RECURSIVE Open(_, _, _, _)
Open(S, d, tpath, mode) ==
    IF Len(tpath) = 0 THEN Ret(S, NoOverlay, "ErrIsDirectory")
    ELSE IF Len(tpath) = 1
    THEN The({
            IF f.err \in {"nil", "PANIC"} THEN f
            ELSE IF BitOr(mode, O_CREATE) # 0
            THEN OpenCreate(f.S, d, tpath[1])
            ELSE Ret(f.S, NoOverlay, "ErrNoSuch")
            : f \in {childFile(S, d, tpath[1])} })
    ELSE The({
            IF c.err # "nil" THEN c
            ELSE Open(c.S, c.ret, Tail(tpath), mode)
            : c \in {childDir(S, d, tpath[1])} })

Mkdir(S, d, name) ==
    The({
        IF r1.err = "PANIC" THEN r1
        ELSE IF r1.err = "nil" THEN Ret(r1.S, NoOverlay, "ErrDirExists")
        ELSE The({
            IF r2.err = "PANIC" THEN r2
            ELSE IF r2.err = "nil" THEN Ret(r2.S, NoOverlay, "ErrFileExists")
            ELSE The({
                IF c.err # "nil" THEN Ret(c.S, NoOverlay, c.err)
                ELSE childDir(c.S, d, name)
                : c \in {parentCloseChild(
                             [r2.S EXCEPT !.ov[d].node =
                                 AddNodeLinkClean(@, name, FolderPBData)], d)} })
            : r2 \in {childFile(r1.S, d, name)} })
        : r1 \in {childDir(S, d, name)} })

\* an Unlink that leaves the caches alone
Unlink_keepcache(S, d, name) ==
    LET rm == RemoveNodeLink(S.ov[d].node, name)
    IN IF rm.err # "nil" THEN Ret(S, NoOverlay, rm.err)
       ELSE ErrOf(parentCloseChild([S EXCEPT !.ov[d].node = rm.nd], d))

Unlink(S, d, name) ==
    LET S1 == [S EXCEPT !.ov[d].childDirs = MapDelete(@, name),
                        !.ov[d].files = MapDelete(@, name)]
        rm == RemoveNodeLink(S.ov[d].node, name)
    IN IF rm.err # "nil" THEN Ret(S1, NoOverlay, rm.err)
       ELSE ErrOf(parentCloseChild([S1 EXCEPT !.ov[d].node = rm.nd], d))

RenameEntry(S, d, oldname, newname) ==
    The({
        IF r1.err = "PANIC" THEN r1
        ELSE IF r1.err = "nil"
        THEN LET S1 == [r1.S EXCEPT !.ov[r1.ret].name = newname]
                 rm == RemoveNodeLink(r1.S.ov[d].node, oldname)
             IN IF rm.err # "nil" THEN Ret(S1, NoOverlay, rm.err)
                ELSE ErrOf(parentCloseChild(
                         [S1 EXCEPT
                             !.ov[d].node = AddNodeLinkClean(
                                 rm.nd, newname, r1.S.ov[r1.ret].node),
                             !.ov[d].childDirs =
                                 MapPut(MapDelete(@, oldname), newname, r1.ret)],
                         d))
        ELSE The({
            IF r2.err = "PANIC" THEN r2
            ELSE IF r2.err = "nil"
            THEN LET S1 == [r2.S EXCEPT !.ov[r2.ret].name = newname]
                     rm == RemoveNodeLink(r2.S.ov[d].node, oldname)
                 IN IF rm.err # "nil" THEN Ret(S1, NoOverlay, rm.err)
                    ELSE ErrOf(parentCloseChild(
                             [S1 EXCEPT
                                 !.ov[d].node = AddNodeLinkClean(
                                     rm.nd, newname, r2.S.ov[r2.ret].node),
                                 !.ov[d].childDirs = MapDelete(@, oldname),
                                 !.ov[d].files = MapPut(@, newname, r2.ret)],
                             d))
            ELSE Ret(r2.S, NoOverlay, "ErrNoSuch")
            : r2 \in {childFile(r1.S, d, oldname)} })
        : r1 \in {childDir(S, d, oldname)} })

AddChild(S, d, name, nd) ==
    The({
        IF c.err = "PANIC" THEN c
        ELSE IF c.err = "nil" THEN Ret(c.S, NoOverlay, "ErrEntryExists")
        ELSE LET S1 == [c.S EXCEPT !.ov[d].node = AddNodeLinkClean(@, name, nd)]
                 id == NewId(c.S)
             IN CASE nd.type = "Directory" ->
                       ErrOf(parentCloseChild(
                           [Alloc(S1, NewDirectory(name, nd, d))
                               EXCEPT !.ov[d].childDirs = MapPut(@, name, id)], d))
                  [] nd.type \in {"File", "Metadata", "Raw"} ->
                       ErrOf(parentCloseChild(
                           [Alloc(S1, NewFile(name, nd, d))
                               EXCEPT !.ov[d].files = MapPut(@, name, id)], d))
                  [] OTHER -> Ret(S1, NoOverlay, "PANIC")
        : c \in {Child(S, d, name)} })

\* the file overlay's side of the upward close (ipnsfs/file.go): its node is
\* replaced by what was written, then parent.closeChild(name)
FileClose(S, f, nd) == ErrOf(parentCloseChild([S EXCEPT !.ov[f].node = nd], f))

(***************************************************************************)
(* The overlay tree as a state machine.  Calls are made on the directories *)
(* and files that can be reached from the root; overlay objects nothing    *)
(* refers to any more are dropped.                                         *)
(***************************************************************************)
Kids(o) == {o.childDirs[k] : k \in DOMAIN o.childDirs} \cup {o.files[k] : k \in DOMAIN o.files}

RECURSIVE Reach(_, _)
Reach(m, seen) ==
    LET more == UNION {Kids(m[i]) : i \in seen} \ seen
    IN IF more = {} THEN seen ELSE Reach(m, seen \cup more)

Live(m) == [i \in Reach(m, {Root}) |-> m[i]]

Dirs == {i \in DOMAIN ov : ov[i].kind = "dir"}
Files == {i \in DOMAIN ov : ov[i].kind = "file"}

Now == [ov |-> ov, dserv |-> dserv, closes |-> <<>>]

\* no node is held by the client
NoRef == [of |-> NoOverlay, links |-> <<>>]

\* no call is running statement by statement
Idle == [stage |-> "idle"]

\* the mutating calls, and Child, by which a directory below the root is reached
Mutations == {"Mkdir", "Unlink", "RenameEntry", "AddChild", "Child"}

Done(op, d, name, arg, mode, r) ==
    /\ dlast.err # "PANIC"
    /\ dlast.calls < MaxCalls
    /\ Cardinality(DOMAIN Live(r.S.ov)) <= MaxOverlays
    /\ ov' = Live(r.S.ov)
    /\ dserv' = r.S.dserv
    /\ dlast' = [op |-> op, dir |-> d, name |-> name, arg |-> arg, mode |-> mode,
                 err |-> r.err, ret |-> r.ret, closes |-> r.S.closes, pre |-> ov,
                 clean |-> dlast.clean /\ op \in Mutations /\ r.err = "nil",
                 calls |-> dlast.calls + 1]
    /\ held' = IF held.of \in DOMAIN Live(r.S.ov) THEN held ELSE NoRef
    /\ UNCHANGED <<rvars, pc>>

\* the trees the overlay is opened on, each with what the DAGService holds
Tree(root) == [root |-> root, dserv |-> Closure(root)]
InitTrees ==
    { [root |-> FolderPBData, dserv |-> {}],
      Tree(DirNode(<<MakeLink("a", FolderPBData), MakeLink("b", FileNode(1))>>)),
      Tree(DirNode(<<MakeLink("a", DirNode(<<MakeLink("b", FileNode(1))>>))>>)),
      Tree(DirNode(<<MakeLink("a", RawNode), MakeLink("b", MetadataNode)>>)) }

\* nodes a client hands to AddChild and writes into a file
ExternalNodes == {FolderPBData, FileNode(1), RawNode}
WrittenNodes == {FileNode(1)}

InitDir ==
    /\ rnode = NoTree /\ dr = NoTree /\ rlast = NoTree /\ stream = NoTree
    /\ \E t \in InitTrees :
          /\ ov = [i \in {Root} |-> NewDirectory("", t.root, NoOverlay)]
          /\ dserv = t.dserv
    /\ dlast = [op |-> "init", dir |-> Root, name |-> "", arg |-> "", mode |-> 0,
                err |-> "nil", ret |-> NoOverlay, closes |-> <<>>, pre |-> ov,
                clean |-> TRUE, calls |-> 0]
    /\ held = NoRef
    /\ pc = Idle

Paths == {<<>>} \cup {<<n>> : n \in Names} \cup {<<"a", n>> : n \in Names}

DoOpen ==
    \E d \in Dirs, tpath \in Paths, mode \in Modes :
        Done("Open", d, IF tpath = <<>> THEN "" ELSE tpath[1], tpath, mode,
             Open(Now, d, tpath, mode))

DoChild ==
    \E d \in Dirs, name \in Names :
        Done("Child", d, name, "", 0, Child(Now, d, name))

DoMkdir ==
    \E d \in Dirs, name \in Names :
        Done("Mkdir", d, name, "", 0, Mkdir(Now, d, name))

DoUnlink ==
    \E d \in Dirs, name \in Names :
        Done("Unlink", d, name, "", 0, Unlink(Now, d, name))

DoRenameEntry ==
    \E d \in Dirs, oldname \in Names : \E newname \in Names \ {oldname} :
        Done("RenameEntry", d, oldname, newname, 0,
             RenameEntry(Now, d, oldname, newname))

DoAddChild ==
    \E d \in Dirs, name \in Names, nd \in ExternalNodes :
        Done("AddChild", d, name, nd, 0, AddChild(Now, d, name, nd))

DoFileClose ==
    \E f \in Files : \E nd \in {ov[f].node} \cup WrittenNodes :
        Done("FileClose", f, ov[f].name, nd, 0, FileClose(Now, f, nd))

NextDir ==
    DoOpen \/ DoChild \/ DoMkdir \/ DoUnlink \/ DoRenameEntry \/ DoAddChild \/ DoFileClose

SpecDir == InitDir /\ [][NextDir]_vars

\* Directory.GetNode returns d.node itself: the client holds the node object
\* that the methods of d go on to call RemoveNodeLink and AddNodeLinkClean
\* on (d.node is assigned in NewDirectory only)
DoGetNode ==
    \E d \in Dirs :
        /\ dlast.err # "PANIC"
        /\ held' = [of |-> d, links |-> GetNodeOf(Now, d).links]
        /\ UNCHANGED <<rvars, ov, dserv, dlast, pc>>

\* a client that keeps a node it got from GetNode while the tree is mutated
NextHeld ==
    \/ DoGetNode
    \/ DoChild \/ DoMkdir \/ DoUnlink \/ DoRenameEntry \/ DoAddChild \/ DoFileClose

SpecHeld == InitDir /\ [][NextHeld]_vars

(***************************************************************************)
(* Mkdir statement by statement.  Directory has no lock, so another        *)
(* goroutine can run between any two statements of a call; the steps here  *)
(* are the change of d.node, each level of the closeChild cascade, and the *)
(* final childDir.                                                         *)
(***************************************************************************)
\* the nodes an observer reads walking from the root down to directory d
RECURSIVE View(_, _)
View(m, d) ==
    IF m[d].parent = NoOverlay THEN <<m[d].node>>
    ELSE Append(View(m, m[d].parent), m[d].node)

\* lines 196-206 of Mkdir, for a name that is not there: the link is added
MkdirBegin ==
    \E d \in Dirs, name \in Names :
        /\ pc.stage = "idle"
        /\ dlast.err # "PANIC" /\ dlast.calls < MaxCalls
        /\ childDir(Now, d, name).err \notin {"nil", "PANIC"}
        /\ childFile(Now, d, name).err \notin {"nil", "PANIC"}
        /\ ov' = [ov EXCEPT ![d].node = AddNodeLinkClean(@, name, FolderPBData)]
        /\ pc' = [stage |-> "closeChild", dir |-> d, name |-> name, at |-> d,
                  pre |-> View(ov, d), post |-> View(Mkdir(Now, d, name).S.ov, d),
                  seen |-> <<>>]
        /\ dlast' = [op |-> "Mkdir", dir |-> d, name |-> name, arg |-> "", mode |-> 0,
                     err |-> "nil", ret |-> NoOverlay, closes |-> <<>>, pre |-> ov,
                     clean |-> FALSE, calls |-> dlast.calls + 1]
        /\ UNCHANGED <<rvars, dserv, held>>

\* line 211 of Mkdir and line 97 of closeChild: one level of the cascade, the
\* closeChild of the parent of the overlay the cascade stands at
CloseStep ==
    /\ pc.stage = "closeChild"
    /\ IF ov[pc.at].parent = NoOverlay
       THEN /\ pc' = [pc EXCEPT !.stage = "childDir"]
            /\ UNCHANGED <<ov, dserv, dlast>>
       ELSE \E l \in {closeChildLevel(Now, ov[pc.at].parent, ov[pc.at].name)} :
              /\ Cardinality(DOMAIN l.S.ov) <= MaxOverlays
              /\ ov' = l.S.ov
              /\ dserv' = l.S.dserv
              /\ IF l.err = "nil"
                 THEN pc' = [pc EXCEPT !.at = ov[pc.at].parent] /\ dlast' = dlast
                 ELSE pc' = Idle /\ dlast' = [dlast EXCEPT !.err = l.err]
    /\ UNCHANGED <<rvars, held>>

\* line 216 of Mkdir
MkdirEnd ==
    /\ pc.stage = "childDir"
    /\ \E r \in {childDir(Now, pc.dir, pc.name)} :
          /\ Cardinality(DOMAIN Live(r.S.ov)) <= MaxOverlays
          /\ ov' = Live(r.S.ov)
          /\ dserv' = r.S.dserv
          /\ dlast' = [dlast EXCEPT !.err = r.err, !.ret = r.ret]
    /\ pc' = Idle
    /\ UNCHANGED <<rvars, held>>

\* another goroutine walks from the root to the directory that Mkdir is
\* running on, through the cached overlays, and reads each node on the way
Observe ==
    /\ pc.stage \in {"closeChild", "childDir"}
    /\ pc' = [pc EXCEPT !.seen = View(ov, pc.dir)]
    /\ UNCHANGED <<rvars, ov, dserv, dlast, held>>

\* whole calls build the tree; then a Mkdir runs in steps next to an observer
NextCascade ==
    \/ pc.stage = "idle" /\ (DoChild \/ DoMkdir \/ DoAddChild)
    \/ MkdirBegin \/ CloseStep \/ MkdirEnd
    \/ Observe

SpecCascade == InitDir /\ [][NextCascade]_vars

(***************************************************************************)
(* Child statement by statement, called by several goroutines with the     *)
(* same name on the same directory.  Each goroutine reads the cache        *)
(* (lines 139-142, 101-104) and, when the name is not there, goes on to    *)
(* build and install an overlay (lines 144-171, 106-135); nothing keeps    *)
(* another goroutine from running between the two.                         *)
(***************************************************************************)
Goroutines == 1..2

\* lines 144-171 of childDir, reached after the cache missed, whatever the
\* cache holds by now: the new directory overwrites d.childDirs[name]
childDirMissed(S, d, name) ==
    childDir([S EXCEPT !.ov[d].childDirs = MapDelete(@, name)], d, name)

\* lines 106-135 of childFile, reached after the cache missed
childFileMissed(S, d, name) ==
    childFile([S EXCEPT !.ov[d].files = MapDelete(@, name)], d, name)

\* goroutine t is at statement `at` of its call
At(t, at) == pc.stage = "lookup" /\ pc.th[t].at = at

\* goroutine t moves on to statement `at`, or returns (at = "done")
Goto(t, at, ret, err) ==
    pc' = [pc EXCEPT !.th[t] = [at |-> at, ret |-> ret, err |-> err]]

\* every goroutine calls d.Child(name) for a link of d that is in no cache
LookupBegin ==
    \E d \in Dirs, name \in Names :
        /\ pc.stage = "idle"
        /\ dlast.err # "PANIC"
        /\ HasLink(ov[d].node, name)
        /\ name \notin DOMAIN ov[d].childDirs \cup DOMAIN ov[d].files
        /\ Cardinality(DOMAIN ov) + Cardinality(Goroutines) <= MaxOverlays
        /\ pc' = [stage |-> "lookup", dir |-> d, name |-> name, pre |-> ov,
                  th |-> [t \in Goroutines |->
                            [at |-> "childDir", ret |-> NoOverlay, err |-> "nil"]]]
        /\ UNCHANGED <<rvars, ov, dserv, dlast, held>>

\* lines 139-142 of childDir
CheckDirs(t) ==
    /\ At(t, "childDir")
    /\ IF pc.name \in DOMAIN ov[pc.dir].childDirs
       THEN Goto(t, "done", ov[pc.dir].childDirs[pc.name], "nil")
       ELSE Goto(t, "childDirMissed", NoOverlay, "nil")
    /\ UNCHANGED <<rvars, ov, dserv, dlast, held>>

\* lines 144-171 of childDir, and lines 175-178 of Child
FetchDir(t) ==
    /\ At(t, "childDirMissed")
    /\ \E r \in {childDirMissed(Now, pc.dir, pc.name)} :
          /\ ov' = r.S.ov
          /\ IF r.err \in {"nil", "PANIC"}
             THEN Goto(t, "done", r.ret, r.err)
             ELSE Goto(t, "childFile", NoOverlay, "nil")
    /\ UNCHANGED <<rvars, dserv, dlast, held>>

\* lines 101-104 of childFile
CheckFiles(t) ==
    /\ At(t, "childFile")
    /\ IF pc.name \in DOMAIN ov[pc.dir].files
       THEN Goto(t, "done", ov[pc.dir].files[pc.name], "nil")
       ELSE Goto(t, "childFileMissed", NoOverlay, "nil")
    /\ UNCHANGED <<rvars, ov, dserv, dlast, held>>

\* lines 106-135 of childFile, and lines 179-184 of Child
FetchFile(t) ==
    /\ At(t, "childFileMissed")
    /\ \E r \in {childFileMissed(Now, pc.dir, pc.name)} :
          /\ ov' = r.S.ov
          /\ IF r.err \in {"nil", "PANIC"}
             THEN Goto(t, "done", r.ret, r.err)
             ELSE Goto(t, "done", NoOverlay, "ErrNoSuch")
    /\ UNCHANGED <<rvars, dserv, dlast, held>>

\* whole calls build the tree; then the goroutines look one name up
NextLookup ==
    \/ pc.stage = "idle" /\ (DoChild \/ DoAddChild \/ DoUnlink)
    \/ LookupBegin
    \/ \E t \in Goroutines : CheckDirs(t) \/ FetchDir(t) \/ CheckFiles(t) \/ FetchFile(t)

SpecLookup == InitDir /\ [][NextLookup]_vars

(***************************************************************************)
(* Properties of the overlay tree                                          *)
(***************************************************************************)
\* the tree before the last call (the DAGService only grows)
Before == [ov |-> dlast.pre, dserv |-> dserv, closes |-> <<>>]

AlreadyExists == {"ErrDirExists", "ErrFileExists", "ErrEntryExists"}
\* ipnsfs.ErrNoSuch, and dag.ErrNotFound of a link that is not there
NoSuchEntry == {"ErrNoSuch", "ErrNotFound"}

\* directory p holds a link under c's name to c's current node
Linked(p, c) ==
    \E i \in 1..Len(p.node.links) :
        /\ p.node.links[i].name = c.name
        /\ p.node.links[i].hash = Multihash(c.node)

\* every ancestor of overlay x, up to the root, links its child's current node
RECURSIVE RelinkedUp(_)
RelinkedUp(x) ==
    \/ ov[x].parent = NoOverlay
    \/ /\ ov[x].parent \in DOMAIN ov
       /\ Linked(ov[ov[x].parent], ov[x])
       /\ RelinkedUp(ov[x].parent)

RECURSIVE Depth(_)
Depth(x) == IF ov[x].parent = NoOverlay THEN 0 ELSE 1 + Depth(ov[x].parent)

\* C1: after any sequence of successful Mkdir, Unlink, RenameEntry and AddChild
\* calls (and the Child calls that reach the directories they are made on),
\* every directory links, under the name of each overlay in its caches, the
\* current node of that overlay.
C1_NoStaleLink ==
    dlast.clean => \A p \in Dirs : \A c \in Kids(ov[p]) : Linked(ov[p], ov[c])

\* C5: after a successful RenameEntry(old, new), old # new: Child(old) is
\* NoSuchEntry, Child(new) is the overlay that was under old, with the same
\* node, and the directory's node differs from the one before.
C5_Rename ==
    (dlast.op = "RenameEntry" /\ dlast.err = "nil" /\ dlast.name # dlast.arg) =>
        LET d == dlast.dir
            was == Child(Before, d, dlast.name)
            is == Child(Now, d, dlast.arg)
        IN /\ Child(Now, d, dlast.name).err = "ErrNoSuch"
           /\ is.err = "nil" /\ was.err = "nil"
           /\ is.S.ov[is.ret].node = was.S.ov[was.ret].node
           /\ was.ret \in DOMAIN dlast.pre => is.ret = was.ret
           /\ ov[d].node # dlast.pre[d].node

\* C6: List() is the names of the links in link order; Mkdir(n) with n not
\* among them succeeds, and then n is in List() and Child(n) is the directory
\* overlay Mkdir returned, of an empty directory.
C6_Mkdir ==
    /\ \A d \in Dirs :
          List(Now, d) = [i \in 1..Len(ov[d].node.links) |-> ov[d].node.links[i].name]
    /\ (dlast.op = "Mkdir" /\ ~HasLink(dlast.pre[dlast.dir].node, dlast.name)) =>
          /\ dlast.err = "nil"
          /\ \E i \in 1..Len(List(Now, dlast.dir)) : List(Now, dlast.dir)[i] = dlast.name
          /\ Child(Now, dlast.dir, dlast.name).err = "nil"
          /\ Child(Now, dlast.dir, dlast.name).ret = dlast.ret
          /\ ov[dlast.ret].kind = "dir"
          /\ ov[dlast.ret].node = FolderPBData

\* C7: Mkdir(name) fails with AlreadyExists whenever name is in a cache or is
\* the name of a link; the links are then unchanged and nothing is closed.
C7_MkdirExists ==
    (/\ dlast.op = "Mkdir"
     /\ \/ dlast.name \in DOMAIN dlast.pre[dlast.dir].childDirs
        \/ dlast.name \in DOMAIN dlast.pre[dlast.dir].files
        \/ HasLink(dlast.pre[dlast.dir].node, dlast.name)) =>
        /\ dlast.err \in AlreadyExists
        /\ ov[dlast.dir].node.links = dlast.pre[dlast.dir].node.links
        /\ dlast.closes = <<>>

\* the create bit of a mode: mode & O_CREATE != 0
CreateBit(mode) == (mode \div O_CREATE) % 2 = 1

\* C8: Open([p], mode) without the create bit creates nothing: NoSuchEntry when
\* p is no entry, IsDirectory when p is a directory, file cache and node
\* unchanged in both cases.
C8_OpenNoCreate ==
    (dlast.op = "Open" /\ Len(dlast.arg) = 1 /\ ~CreateBit(dlast.mode)) =>
        LET P == dlast.pre[dlast.dir]
            p == dlast.name
            absent == /\ ~HasLink(P.node, p)
                      /\ p \notin DOMAIN P.childDirs /\ p \notin DOMAIN P.files
            isdir == \/ p \in DOMAIN P.childDirs
                     \/ /\ HasLink(P.node, p)
                        /\ P.node.links[FirstLinkIndex(P.node, p)].hash.digest.type
                              = "Directory"
            same == /\ ov[dlast.dir].files = P.files
                    /\ ov[dlast.dir].node = P.node
        IN /\ absent => (dlast.err = "ErrNoSuch" /\ same)
           /\ isdir => (dlast.err = "ErrIsDirectory" /\ same)

\* the file overlay the last call closed upward was in no link of its parent
\* before the call
WasUnlinked(f) ==
    /\ f \in DOMAIN dlast.pre
    /\ ~HasLink(dlast.pre[dlast.pre[f].parent].node, dlast.pre[f].name)

\* before the last call, file overlay f was what its parent's caches held
\* under f's name
StillCached(f) ==
    LET P == dlast.pre[dlast.pre[f].parent]
        p == dlast.pre[f].name
    IN /\ p \in DOMAIN P.files /\ P.files[p] = f
       /\ p \notin DOMAIN P.childDirs

\* C9: Open([p], create) of an absent name p puts the new empty file in
\* file_cache only: no directory's node changes, closeChild is not called and
\* List() does not hold p; once an upward close for p, started through the
\* file overlay, has succeeded, p is in List(), linking the file's node when
\* the file was still cached under p.
C9_OpenCreate ==
    /\ (/\ dlast.op = "Open" /\ Len(dlast.arg) = 1 /\ CreateBit(dlast.mode)
        /\ ~HasLink(dlast.pre[dlast.dir].node, dlast.name)
        /\ dlast.name \notin DOMAIN dlast.pre[dlast.dir].childDirs
        /\ dlast.name \notin DOMAIN dlast.pre[dlast.dir].files) =>
          /\ dlast.err = "nil"
          /\ dlast.ret \notin DOMAIN dlast.pre
          /\ ov[dlast.dir].files = MapPut(dlast.pre[dlast.dir].files, dlast.name, dlast.ret)
          /\ ov[dlast.dir].childDirs = dlast.pre[dlast.dir].childDirs
          /\ ov[dlast.ret] = NewFile(dlast.name, FilePBData, dlast.dir)
          /\ \A i \in DOMAIN dlast.pre : i \in DOMAIN ov /\ ov[i].node = dlast.pre[i].node
          /\ dlast.closes = <<>>
          /\ ~HasLink(ov[dlast.dir].node, dlast.name)
    /\ (dlast.op = "FileClose" /\ dlast.err = "nil" /\ WasUnlinked(dlast.dir)) =>
          /\ dlast.dir \in DOMAIN ov
          /\ HasLink(ov[ov[dlast.dir].parent].node, ov[dlast.dir].name)
          /\ StillCached(dlast.dir) => Linked(ov[ov[dlast.dir].parent], ov[dlast.dir])

\* a file made by Open in a directory below the root has been closed upward,
\* and its name is now linked
C9_Witness ==
    /\ dlast.op = "FileClose" /\ dlast.err = "nil" /\ WasUnlinked(dlast.dir)
    /\ dlast.pre[dlast.dir].node = FilePBData
    /\ Depth(dlast.dir) = 2
    /\ Len(dlast.closes) = 3
    /\ StillCached(dlast.dir)
    /\ HasLink(ov[ov[dlast.dir].parent].node, ov[dlast.dir].name)

\* C10: Unlink(name) fails with NoSuchEntry when there is no link named name;
\* when it succeeds, name is in neither List() nor a cache, Child(name) is
\* NoSuchEntry, the other links are unchanged, and every ancestor links its
\* child's current node.
C10_Unlink ==
    dlast.op = "Unlink" =>
        LET d == dlast.dir
            P == dlast.pre[d]
        IN /\ ~HasLink(P.node, dlast.name) => dlast.err \in NoSuchEntry
           /\ dlast.err = "nil" =>
                /\ ~HasLink(ov[d].node, dlast.name)
                /\ dlast.name \notin DOMAIN ov[d].childDirs
                /\ dlast.name \notin DOMAIN ov[d].files
                /\ Child(Now, d, dlast.name).err = "ErrNoSuch"
                /\ ov[d].node.links =
                      SelectSeq(P.node.links, LAMBDA l : NotNamed(dlast.name, l))
                /\ RelinkedUp(d)

\* an entry that was cached has been unlinked from a directory below the
\* root, whose other entry stayed, and the root was relinked
C10_Witness ==
    /\ dlast.op = "Unlink" /\ dlast.err = "nil"
    /\ Depth(dlast.dir) = 1
    /\ dlast.name \in DOMAIN dlast.pre[dlast.dir].files
    /\ Len(ov[dlast.dir].node.links) = 1
    /\ Len(dlast.closes) = 2
    /\ ov[Root].node # dlast.pre[Root].node

\* C11: AddChild(name, node) fails with AlreadyExists, changing nothing, when
\* name is visible; otherwise it appends the one link name->node, installs an
\* overlay in the cache of node's kind, closes upward, and then Child(name)
\* returns an overlay whose node is node.
C11_AddChild ==
    dlast.op = "AddChild" =>
        LET d == dlast.dir
            P == dlast.pre[d]
            n == dlast.name
            visible == \/ HasLink(P.node, n)
                       \/ n \in DOMAIN P.childDirs \/ n \in DOMAIN P.files
            after == Child(Now, d, n)
        IN /\ visible =>
                /\ dlast.err \in AlreadyExists
                /\ ov[d].node = P.node
                /\ dlast.closes = <<>>
           /\ ~visible =>
                /\ dlast.err = "nil"
                /\ ov[d].node.links = Append(P.node.links, MakeLink(n, dlast.arg))
                /\ IF dlast.arg.type = "Directory"
                   THEN n \in DOMAIN ov[d].childDirs /\ n \notin DOMAIN ov[d].files
                   ELSE n \in DOMAIN ov[d].files /\ n \notin DOMAIN ov[d].childDirs
                /\ dlast.closes # <<>>
                /\ after.err = "nil"
                /\ after.S.ov[after.ret].node = dlast.arg

\* the kind of the target of d's link named n
LinkKind(d, n) ==
    ov[d].node.links[FirstLinkIndex(ov[d].node, n)].hash.digest.type

\* C12: in every reachable state, every key of a directory's dir_cache and
\* file_cache names a link of its dag_node, and the cached overlay's kind
\* (directory or file) is the kind of the link's target.
C12_CachesAreLinks ==
    \A d \in Dirs :
        /\ \A n \in DOMAIN ov[d].childDirs :
              HasLink(ov[d].node, n) /\ LinkKind(d, n) = "Directory"
        /\ \A n \in DOMAIN ov[d].files :
              HasLink(ov[d].node, n) /\ LinkKind(d, n) # "Directory"

\* C13: in every reachable state, no name is a key of both dir_cache and
\* file_cache of one directory.
C13_CachesDisjoint ==
    \A d \in Dirs : DOMAIN ov[d].childDirs \cap DOMAIN ov[d].files = {}

\* C14: a node obtained earlier from GetNode has, after any later Mkdir,
\* Unlink, RenameEntry, AddChild or closeChild, the links it had when it was
\* obtained: mutations never change a node in place.
C14_NodesImmutable ==
    held.of # NoOverlay => ov[held.of].node.links = held.links

\* what successive Reads with buffers of MaxRead bytes deliver from reader r
\* until one of them returns an error (end-of-stream on a well-formed file)
RECURSIVE ReadAll(_, _)
ReadAll(r, acc) ==
    The({ IF x.err # "nil" THEN [dr |-> x.dr, out |-> acc \o x.out, err |-> x.err]
          ELSE ReadAll(x.dr, acc \o x.out)
          : x \in {Read(r, MaxRead)} })

\* C15: WriteTo on a reader at offset o over a well-formed file writes to the
\* sink exactly the bytes that successive Reads would have delivered from o to
\* the end-of-stream, in the same order, returns their count filesize - o and
\* no error, and leaves offset = filesize, with Raw and with File chunks.
C15_WriteTo ==
    [][rlast'.op = "WriteTo" =>
          /\ rlast'.out = ReadAll(dr, <<>>).out
          /\ rlast'.n = rnode.filesize - dr.offset
          /\ rlast'.err = "nil"
          /\ dr'.offset = rnode.filesize]_vars

\* C16: while a mutation of a directory and its closeChild cascade are in
\* progress, an observer walking from the root sees along the path either the
\* tree as it was before the mutation or the tree as it is after it, never
\* the mutated directory under an ancestor whose link is still the old one.
C16_PreOrPost ==
    (pc.stage # "idle" /\ pc.seen # <<>>) => pc.seen \in {pc.pre, pc.post}

\* C17: concurrent lookups of the same name, in no cache yet, on a directory
\* nobody mutates are safe: all callers get the same overlay handle and
\* exactly one overlay is installed for the name.
C17_OneOverlay ==
    (pc.stage = "lookup" /\ \A t \in Goroutines : pc.th[t].at = "done") =>
        /\ \A t, u \in Goroutines : pc.th[t].ret = pc.th[u].ret /\ pc.th[t].err = pc.th[u].err
        /\ pc.th[1].err = "nil" => Cardinality(DOMAIN ov \ DOMAIN pc.pre) = 1

\* the last call made closeChild(name) on a directory that is still there,
\* and the cascade went up to the root's parent without an error
CascadeDone ==
    /\ dlast.closes # <<>>
    /\ dlast.closes[1].dir \in DOMAIN ov
    /\ dlast.closes[Len(dlast.closes)].dir = NoOverlay

\* closeChild(name) invoked once more on that directory
CloseAgain == closeChild(Now, dlast.closes[1].dir, dlast.closes[1].name)

\* C18: closeChild(name) invoked a second time, the child's node unchanged,
\* leaves the directory's node and every ancestor's node equal in content
\* hash to what the first invocation produced.
C18_CloseAgain ==
    CascadeDone =>
        \A i \in DOMAIN ov : Multihash(CloseAgain.S.ov[i].node) = Multihash(ov[i].node)

\* a file two levels down was closed with new content: the cascade relinked
\* its directory and the root, both to nodes they did not have before, and
\* the second closeChild runs up to the root again
C18_Witness ==
    /\ CascadeDone
    /\ dlast.op = "FileClose" /\ dlast.err = "nil"
    /\ Len(dlast.closes) = 3
    /\ \A i \in 1..2 : ov[dlast.closes[i].dir].node # dlast.pre[dlast.closes[i].dir].node
    /\ CloseAgain.err = "nil" /\ Len(CloseAgain.S.closes) = 3

\* C19: Close may be called twice or more in any state of the reader: every
\* call succeeds, and none changes offset or linkPosition.
C19_Close ==
    [][rlast'.op = "Close" =>
          /\ rlast'.err = "nil"
          /\ dr'.offset = dr.offset
          /\ dr'.linkPosition = dr.linkPosition]_vars

\* the second Close of a reader that stands inside its second chunk, a File
\* chunk, with bytes delivered
C19_Witness ==
    /\ rlast.op = "Close" /\ rlast.n = 2 /\ rlast.err = "nil"
    /\ dr.linkPosition = 2 /\ dr.buf.rs = "dag" /\ dr.offset > 0
    /\ dr.offset < rnode.filesize

\* the errors of precalcNextBuf for a chunk that is not Raw or File
BadChunkErrs == {"ErrInvalidDirLocation", "ErrMetadataInFile", "ErrUnrecognizedType"}

\* C20: when the advance to the next chunk fails because that chunk is a
\* Directory, a Metadata node or undecodable, the Read, WriteTo or Seek in
\* progress returns the error with offset equal to the bytes delivered so
\* far, and the reader is left closed: no later Read delivers bytes of the
\* chunks after the bad one.
C20_BadChunk ==
    [][/\ rlast'.err \in BadChunkErrs =>
            dr'.offset = dr.offset + (IF rlast'.op = "Seek" THEN 0 ELSE rlast'.n)
       /\ (rlast.err \in BadChunkErrs /\ rlast'.op = "Read") =>
            rlast'.n = 0]_vars

C22_NoPanic ==
    /\ dlast.err # "PANIC"
    /\ (/\ dlast.op = "Child"
        /\ HasLink(dlast.pre[dlast.dir].node, dlast.name)
        /\ GetNode(dserv, Before.ov[dlast.dir].node.links[
               FirstLinkIndex(Before.ov[dlast.dir].node, dlast.name)]).nd.type = "Raw")
       => (dlast.err = "nil" /\ ov[dlast.ret].kind = "file")

\* the closeChild calls of an upward close started at overlay d of tree m:
\* parent.closeChild(name) for d and for each ancestor, the root's sink last
RECURSIVE CloseChain(_, _)
CloseChain(m, d) ==
    IF m[d].parent = NoOverlay THEN <<[dir |-> NoOverlay, name |-> m[d].name]>>
    ELSE <<[dir |-> m[d].parent, name |-> m[d].name]>> \o CloseChain(m, m[d].parent)

\* the target of the link named name in the node of overlay p
LinkTarget(p, name) == ov[p].node.links[FirstLinkIndex(ov[p].node, name)].hash.digest

\* C23: in an upward close started by a mutation at depth k each ancestor
\* performs closeChild exactly once, in child-to-root order, ending at the
\* root's sink after k steps; a step persists the child's node before the
\* parent's link is rewritten, and the link is installed before the
\* grandparent's closeChild starts; when a step returns an error no ancestor
\* above it is rewritten and the initiating mutation returns the error.
C23_Cascade ==
    dlast.closes # <<>> =>
        LET chain == CloseChain(dlast.pre, dlast.dir)
            cl == dlast.closes
            n == Len(dlast.closes)
        IN /\ n <= Len(chain) /\ cl = SubSeq(chain, 1, n)
           /\ \A i \in 1..(n - 1) :
                 /\ HasLink(ov[cl[i].dir].node, cl[i].name)
                 /\ LinkTarget(cl[i].dir, cl[i].name) \in dserv
                 /\ i > 1 => LinkTarget(cl[i].dir, cl[i].name) = ov[cl[i - 1].dir].node
           /\ cl[n].dir # NoOverlay =>
                 /\ dlast.err # "nil"
                 /\ \A j \in (n + 1)..(Len(chain) - 1) :
                       ov[chain[j].dir].node = dlast.pre[chain[j].dir].node

\* a file at depth 2 was closed with new content: its directory and then the
\* root ran closeChild, the sink ended the cascade, and the root's link is
\* to the directory's node as the first step left it
C23_Witness ==
    /\ dlast.op = "FileClose" /\ dlast.err = "nil"
    /\ Len(dlast.closes) = 3 /\ dlast.closes[3].dir = NoOverlay
    /\ dlast.closes[2].dir = Root
    /\ dlast.pre[dlast.dir].node # ov[dlast.dir].node
    /\ LinkTarget(Root, dlast.closes[2].name) = ov[dlast.closes[1].dir].node
    /\ LinkTarget(dlast.closes[1].dir, dlast.closes[1].name) = ov[dlast.dir].node

\* C24: after any sequence of successful Read, WriteTo and Seek calls on a
\* well-formed file the reader's position designates the byte at index
\* offset: the next Read delivers that byte first, and delivers nothing, with
\* the end-of-stream, exactly when offset = filesize.
C24_Position ==
    LET x == Read(dr, 1)
    IN IF dr.offset = rnode.filesize
       THEN x.out = <<>> /\ x.err = "EOF"
       ELSE /\ dr.offset < rnode.filesize
            /\ x.out = <<FileBytes(rnode)[dr.offset + 1]>>

\* the keys under which directory P caches overlay c
KeysOf(P, c) ==
    {[cache |-> "childDirs", key |-> k] : k \in {x \in DOMAIN ov[P].childDirs : ov[P].childDirs[x] = c}}
        \cup {[cache |-> "files", key |-> k] : k \in {x \in DOMAIN ov[P].files : ov[P].files[x] = c}}

\* C25: in every reachable state every overlay stored in a directory P's
\* childDirs or files under key k has name k and parent P, and no overlay is
\* stored under two different keys.
C25_CacheKeys ==
    \A P \in Dirs : \A c \in Kids(ov[P]) :
        /\ ov[c].parent = P
        /\ \A e \in KeysOf(P, c) : ov[c].name = e.key
        /\ Cardinality(KeysOf(P, c)) = 1

====
